---- MODULE Spec2Model ----
(***************************************************************************)
(* future-local-storage: a value attached to one future instance.  The     *)
(* wrapper (InstrumentedFuture) swaps its stored value into the current    *)
(* thread's cell of a static key at the start of every poll and swaps it   *)
(* back when the inner poll has returned.                                  *)
(*                                                                         *)
(* A cell holds an Option<T>.  A populated cell is modelled as a record    *)
(* [some, v, o]: v is the value, o is a history tag naming the scope in    *)
(* whose poll window the value was created (0: created outside any scope). *)
(* The tag is not program state: values are moved, never copied, and the   *)
(* tag is what lets the model tell one value from another equal one.       *)
(***************************************************************************)
EXTENDS Integers, Sequences, FiniteSets, TLC

\* ---------------------------------------------------------------- bounds
\* The values the code under test writes are 0..MaxVal.
MaxVal == 1

\* The counting loop runs at most MaxIter iterations.
MaxIter == 2

\* At most MaxNest with callbacks run inside one another on a thread.
MaxNest == 1

\* The result of the lazy storage's initializer, (self.init)().
InitValue == 1

\* Two worker threads and two scoped futures.
Threads == {1, 2}
Scopes == {1, 2}
Val == 0..MaxVal

\* The value scope s is created with, when it is created with one.
ScopeValue(s) == s - 1
\* One once-storage key (FutureOnceLock / FutureOnceCell) and one lazy key.
Keys == {"once", "lazy"}

\* ------------------------------------------------------------ Option<T>
None == [some |-> FALSE, v |-> 0, o |-> 0]
Some(x, tag) == [some |-> TRUE, v |-> x, o |-> tag]
Cells == {None} \cup {Some(x, g) : x \in Val, g \in {0} \cup Scopes}

VARIABLES
    slot,      \* slot[LocalKey(t)][k]: thread t's LocalKey<T> of key k (RefCell<Option<T>>)
    stored,    \* stored[s]: the wrapper's stored_value field
    st,        \* st[s]: the wrapper's lifecycle state
    key,       \* key[s]: the wrapper's storage field (fixed at creation)
    initial,   \* initial[s]: the value the wrapper was created with
    parent,    \* parent[s]: the scope whose code awaits s (0: a task of its own)
    stack,     \* stack[t]: the scopes whose poll is on thread t's call stack
    output,    \* output[s]: the stored component of the completed scope's output
    cur,       \* history: the value scope s holds (None: none yet, or removed)
    track,     \* whether this run records the two history variables below
    written,   \* history: the value scope s was created with or last wrote
    at,        \* history: the threads scope s has been polled on
    inits,     \* history: how often the initializer ran inside scope s
    ret,       \* the outcome of the accessor call made by the last step
    todo,      \* todo[s]: the iterations left to a scope that runs the counting loop
    iters,     \* history: the iterations scope s was created to run
    calls,     \* calls[t]: the with callbacks running on thread t, outermost first
    ext,       \* ext[t]: an Option<T> local of code on thread t that calls swap
    polled     \* history: polled[s].n polls of wrapper s begun (-1: not recorded),
               \* polled[s].last what its last poll returned

vars == <<slot, stored, st, key, initial, parent, stack, output, cur, track, written, at, inits, ret, todo, iters, calls, ext, polled>>

NoRet == [op |-> "none", t |-> 0, k |-> "none", res |-> None, err |-> FALSE, ran |-> FALSE]
Ret(op, t, k, res, err, ran) ==
    [op |-> op, t |-> t, k |-> k, res |-> res, err |-> err, ran |-> ran]

\* ------------------------------------------------------------ Poll<T>
NoPoll == [kind |-> "None", out |-> None]
Pending == [kind |-> "Pending", out |-> None]
Ready(x) == [kind |-> "Ready", out |-> x]

\* A faulty variant of the result of poll: never ready.
AlwaysPending(result) == Pending

\* What InstrumentedFuture::poll returns, given what the inner poll
\* returned: `let result = this.inner.poll(cx); ...; result`.
PollResult(result) == result

\* ------------------------------------------------------------- helpers
Top(t) == stack[t][Len(stack[t])]

SetMax(S) == CHOOSE x \in S : \A y \in S : y <= x

\* The scope whose window encloses an accessor call on key k made on thread
\* t: the innermost scope of that key on t's call stack (0: none).
Owner(t, k) ==
    LET idx == {i \in DOMAIN stack[t] : key[stack[t][i]] = k}
    IN  IF idx = {} THEN 0 ELSE stack[t][SetMax(idx)]

OnStack(t) == {stack[t][i] : i \in DOMAIN stack[t]}

\* A faulty variant of the test below: a cell without a borrow flag.
NeverBorrowed(t, k) == FALSE

\* Thread t's cell of key k is borrowed: a with callback on k is running on
\* t (the Ref taken by with lives until the callback returns).
Borrowed(t, k) == \E i \in DOMAIN calls[t] : calls[t][i].k = k

\* A with callback is running in the code at the top of t's call stack.
InCallback(t) == calls[t] # <<>> /\ calls[t][Len(calls[t])].d = Len(stack[t])

\* The state after the program has created its scoped futures: all cells
\* are empty, every wrapper holds the value it was created with.
Created ==
    /\ slot = [t \in Threads |-> [k \in Keys |-> None]]
    /\ stored = initial
    /\ cur = initial
    /\ written = initial
    /\ at = [s \in Scopes |-> {}]
    /\ st = [s \in Scopes |-> "NotStarted"]
    /\ stack = [t \in Threads |-> <<>>]
    /\ output = [s \in Scopes |-> None]
    /\ inits = [s \in Scopes |-> 0]
    /\ ret = NoRet
    /\ todo = iters
    /\ calls = [t \in Threads |-> <<>>]

\* Two futures of one key (once or lazy), each created with a value
\* (with_scope) or without (attach); the second runs as a task of its own
\* or is awaited inside the first.
Init ==
    /\ \E k \in Keys : key = [s \in Scopes |-> k]
    /\ parent \in [Scopes -> {0} \cup Scopes]
    /\ \A s \in Scopes : parent[s] < s
    /\ initial \in [Scopes -> Cells]
    /\ \A s \in Scopes : initial[s] \in {None, Some(ScopeValue(s), s)}
    /\ track = FALSE
    /\ iters = [s \in Scopes |-> 0]
    /\ polled = [s \in Scopes |-> [n |-> -1, last |-> NoPoll]]
    /\ ext = [t \in Threads |-> None]
    /\ Created

\* Two tasks of one key with the history of writes and of polling threads
\* recorded; the first future is created with a value.
InitTrack ==
    /\ \E k \in Keys : key = [s \in Scopes |-> k]
    /\ parent = [s \in Scopes |-> 0]
    /\ initial \in [Scopes -> Cells]
    /\ initial[1] = Some(ScopeValue(1), 1)
    /\ initial[2] \in {None, Some(ScopeValue(2), 2)}
    /\ track = TRUE
    /\ iters = [s \in Scopes |-> 0]
    /\ polled = [s \in Scopes |-> [n |-> -1, last |-> NoPoll]]
    /\ ext = [t \in Threads |-> None]
    /\ Created

\* ------------------------------------------------------ the thread's cell
\* A faulty variant of the definition below: one cell for the process.
ProcessWide(t) == 1

\* FutureLocalKey::local_key called on thread t: the cell it returns is
\* the calling thread's own (LocalInitCell::get).
LocalKey(t) == t

\* A faulty variant of the definition below: every wrapper swaps with the
\* cell of one and the same key.
SharedStorage(s) == "once"

\* The key whose cell wrapper s swaps with: its storage field, set by
\* attach and never changed.
Storage(s) == key[s]

\* ------------------------------------------------------------ the cell
\* A faulty variant of the exchange below: a copy.
MemCopy(a, b) == <<b, b>>

\* std::mem::swap(a, b): the pair <<a, b>> after the exchange.
MemSwap(a, b) == <<b, a>>

\* FutureLocalKey::swap(this, other): <<cell, other>> after the exchange.
KeySwap(cell, other) == MemSwap(cell, other)

\* Faulty variants of the two swaps of poll: the value copied into the cell
\* instead of moved, and the swap back left out.
SwapInCopy(cell, field) == <<field, field>>
SwapOutKeep(cell, field) == <<cell, field>>

\* Further faulty variants: the first swap left out, and a materialisation
\* that runs the initializer whatever the cell holds.
SwapInSkip(cell, field) == <<cell, field>>
AlwaysInit(cell, tag) == Some(InitValue, tag)

\* And a materialisation that never runs it.
NeverInit(cell, tag) == cell

\* poll's first swap, of the thread's cell with stored_value.
SwapIn(cell, field) == MemSwap(cell, field)

\* poll's second swap, after the inner poll has returned.
SwapOut(cell, field) == MemSwap(cell, field)

\* FutureLazyLock::inited_local_key: the cell after the call; the
\* initializer runs when the cell is empty.
InitedLocalKey(cell, tag) ==
    IF ~cell.some THEN KeySwap(cell, Some(InitValue, tag))[1] ELSE cell

\* ------------------------------------------------- history bookkeeping
\* An accessor call on key k of thread t that found `found` (after any
\* materialisation) and left `left` in the cell.
NoteCur(t, k, left) ==
    cur' = IF Owner(t, k) = 0 THEN cur ELSE [cur EXCEPT ![Owner(t, k)] = left]

NoteWritten(t, k, new) ==
    written' = IF track /\ Owner(t, k) # 0
               THEN [written EXCEPT ![Owner(t, k)] = new]
               ELSE written

NoteInits(t, k, ran) ==
    inits' = IF ran /\ Owner(t, k) # 0
             THEN [inits EXCEPT ![Owner(t, k)] = @ + 1]
             ELSE inits

\* -------------------------------------------------------------- panics
\* A panic in the code run by the inner poll unwinds through every poll on
\* the thread's stack: poll has no guard, so the second swap is skipped,
\* and the wrappers are dropped with whatever their fields hold.
Unwind(t) ==
    /\ st' = [s \in Scopes |-> IF s \in OnStack(t) THEN "Dropped" ELSE st[s]]
    /\ stored' = [s \in Scopes |-> IF s \in OnStack(t) THEN None ELSE stored[s]]
    /\ stack' = [stack EXCEPT ![t] = <<>>]
    /\ calls' = [calls EXCEPT ![t] = <<>>]

\* A panic inside poll itself, before the inner poll is called: the
\* wrapper being polled goes with the frames that are unwound.
UnwindPoll(t, s) ==
    /\ st' = [x \in Scopes |-> IF x \in OnStack(t) \cup {s} THEN "Dropped" ELSE st[x]]
    /\ stored' = [x \in Scopes |-> IF x \in OnStack(t) \cup {s} THEN None ELSE stored[x]]
    /\ stack' = [stack EXCEPT ![t] = <<>>]
    /\ calls' = [calls EXCEPT ![t] = <<>>]

\* A failed accessor call panics; inside a poll the panic unwinds the
\* thread's stack, outside it only ends the caller.  Either way the
\* callbacks running on the thread are left and their borrows released.
Panic(t) ==
    IF stack[t] # <<>>
    THEN Unwind(t)
    ELSE /\ calls' = [calls EXCEPT ![t] = <<>>]
         /\ UNCHANGED <<st, stored, stack>>

\* RefCell::borrow_mut on a cell that a with callback has borrowed panics
\* (BorrowMutError): the call made by op fails before it touches the cell.
BorrowMutFails(t, op, k) ==
    /\ Panic(t)
    /\ ret' = Ret(op, t, k, None, TRUE, FALSE)
    /\ UNCHANGED <<track, iters, ext, polled, at, todo, slot, key, initial, parent, output, cur, written, inits>>

\* Wrapper s begins a poll; its poll returns what PollResult makes of the
\* inner result.
NotePoll(s) ==
    polled' = IF polled[s].n < 0 THEN polled ELSE [polled EXCEPT ![s].n = @ + 1]

NoteResult(s, inner) ==
    polled' = IF polled[s].n < 0 THEN polled
              ELSE [polled EXCEPT ![s].last = PollResult(inner)]

\* ---------------------------------------------------------------- poll
\* Who may poll s now on thread t: the scheduler (nothing else is running
\* on t) or, for a nested scope, the code of its parent.
MayPoll(t, s) ==
    IF parent[s] = 0
    THEN stack[t] = <<>>
    ELSE stack[t] # <<>> /\ Top(t) = parent[s]

\* InstrumentedFuture::poll up to the call of the inner poll.
PollBegin(t, s) ==
    /\ st[s] \in {"NotStarted", "Suspended"}
    /\ MayPoll(t, s)
    /\ IF Borrowed(t, Storage(s))
       THEN /\ UnwindPoll(t, s)
            /\ ret' = Ret("poll", t, Storage(s), None, TRUE, FALSE)
            /\ UNCHANGED <<slot, at, polled>>
       ELSE /\ LET sw == SwapIn(slot[LocalKey(t)][Storage(s)], stored[s])
               IN  /\ slot' = [slot EXCEPT ![LocalKey(t)][Storage(s)] = sw[1]]
                   /\ stored' = [stored EXCEPT ![s] = sw[2]]
            /\ st' = [st EXCEPT ![s] = "Installed"]
            /\ stack' = [stack EXCEPT ![t] = Append(@, s)]
            /\ at' = IF track THEN [at EXCEPT ![s] = @ \cup {t}] ELSE at
            /\ ret' = NoRet
            /\ calls' = calls
            /\ NotePoll(s)
    /\ UNCHANGED <<track, iters, ext, todo, key, initial, parent, output, cur, written, inits>>

\* InstrumentedFuture::poll from the return of the inner poll with
\* Poll::Pending.
PollSuspend(t) ==
    /\ stack[t] # <<>>
    /\ ~InCallback(t)
    /\ calls' = calls
    /\ NoteResult(Top(t), Pending)
    /\ LET s == Top(t)
           sw == SwapOut(slot[LocalKey(t)][Storage(s)], stored[s])
       IN  /\ slot' = [slot EXCEPT ![LocalKey(t)][Storage(s)] = sw[1]]
           /\ stored' = [stored EXCEPT ![s] = sw[2]]
           /\ st' = [st EXCEPT ![s] = "Suspended"]
    /\ stack' = [stack EXCEPT ![t] = SubSeq(@, 1, Len(@) - 1)]
    /\ ret' = NoRet
    /\ UNCHANGED <<track, iters, ext, at, todo, key, initial, parent, output, cur, written, inits>>

\* What a completing wrapper does with its field after the swap back: a
\* scope created with a value (with_scope) moves the value out of the field
\* into the stored component of its output, an attached one (attach) keeps
\* the field and yields the inner output alone.
Completion(s, field) ==
    IF initial[s].some
    THEN [out |-> field, field |-> None]
    ELSE [out |-> None, field |-> field]

\* InstrumentedFuture::poll from the return of the inner poll with
\* Poll::Ready.
PollComplete(t) ==
    /\ stack[t] # <<>>
    /\ ~InCallback(t)
    /\ calls' = calls
    /\ NoteResult(Top(t), Ready(None))
    /\ LET s == Top(t)
           sw == SwapOut(slot[LocalKey(t)][Storage(s)], stored[s])
           done == Completion(s, sw[2])
       IN  /\ slot' = [slot EXCEPT ![LocalKey(t)][Storage(s)] = sw[1]]
           /\ st' = [st EXCEPT ![s] = "Completed"]
           /\ output' = [output EXCEPT ![s] = done.out]
           /\ stored' = [stored EXCEPT ![s] = done.field]
    /\ stack' = [stack EXCEPT ![t] = SubSeq(@, 1, Len(@) - 1)]
    /\ ret' = NoRet
    /\ UNCHANGED <<track, iters, ext, at, todo, key, initial, parent, cur, written, inits>>

\* The inner computation panics for a reason of its own.
InnerPanic(t) ==
    /\ stack[t] # <<>>
    /\ Unwind(t)
    /\ ret' = NoRet
    /\ UNCHANGED <<track, iters, ext, polled, at, todo, slot, key, initial, parent, output, cur, written, inits>>

\* The wrapper is dropped before it completed (cancellation).  It has no
\* Drop implementation: the field is dropped with it, no cell is touched.
Discard(s) ==
    /\ st[s] \in {"NotStarted", "Suspended"}
    /\ calls' = calls
    /\ st' = [st EXCEPT ![s] = "Cancelled"]
    /\ stored' = [stored EXCEPT ![s] = None]
    /\ ret' = NoRet
    /\ UNCHANGED <<track, iters, ext, polled, at, todo, slot, key, initial, parent, stack, output, cur, written, inits>>

\* ------------------------------------------------- once-storage accessors
\* The program's statics: the keys its scopes are bound to.
Declared(k) == \E s \in Scopes : key[s] = k

\* A faulty variant of the check below: a default value instead of a panic.
ExpectDefault(cell) == [err |-> FALSE, res |-> IF cell.some THEN cell ELSE Some(0, 0)]

\* The Option the callback of with is given: .expect(..) panics on None.
Expect(cell) == [err |-> ~cell.some, res |-> cell]

\* FutureOnceLock::with, FutureOnceCell::with and FutureOnceCell::get
\* (borrow().unwrap()): the value is handed out, or the call panics.
OnceWith(t) ==
    /\ Declared("once")
    /\ LET cell == slot[LocalKey(t)]["once"]
           r == Expect(cell)
       IN  /\ ret' = Ret("with", t, "once", r.res, r.err, FALSE)
           /\ IF r.err THEN Panic(t) ELSE UNCHANGED <<st, stored, stack, calls>>
           /\ UNCHANGED <<track, iters, ext, polled, at, todo, slot, key, initial, parent, output, cur, written, inits>>

\* FutureOnceLock::get: a copy of the Option.
OnceLockGet(t) ==
    /\ Declared("once")
    /\ LET cell == slot[LocalKey(t)]["once"]
       IN  /\ ret' = Ret("get", t, "once", cell, FALSE, FALSE)
           /\ calls' = calls
           /\ UNCHANGED <<track, iters, ext, polled, at, todo, slot, stored, st, key, initial, parent, stack, output, cur, written, inits>>

\* Faulty variants of the two below: the cell left as it was.
TakeKeep(cell) == <<cell, cell>>
ReplaceKeep(cell, new) == <<cell, cell>>

\* Option::take on the cell: <<cell after, returned>>.
TakeCell(cell) == <<None, cell>>

\* Option::replace on the cell: <<cell after, returned>>.
ReplaceCell(cell, new) == <<new, cell>>

\* FutureOnceLock::take.
OnceTake(t) ==
    /\ Declared("once")
    /\ IF Borrowed(t, "once")
       THEN BorrowMutFails(t, "take", "once")
       ELSE LET cell == slot[LocalKey(t)]["once"]
                r == TakeCell(cell)
            IN  /\ slot' = [slot EXCEPT ![LocalKey(t)]["once"] = r[1]]
                /\ ret' = Ret("take", t, "once", r[2], FALSE, FALSE)
                /\ NoteCur(t, "once", r[1])
                /\ written' = written
                /\ UNCHANGED <<track, iters, ext, polled, calls, at, todo, stored, st, key, initial, parent, stack, output, inits>>

\* FutureOnceLock::replace, and set, which is replace with the result dropped.
OnceReplace(t, v) ==
    /\ Declared("once")
    /\ IF Borrowed(t, "once")
       THEN BorrowMutFails(t, "replace", "once")
       ELSE LET cell == slot[LocalKey(t)]["once"]
                r == ReplaceCell(cell, Some(v, Owner(t, "once")))
            IN  /\ slot' = [slot EXCEPT ![LocalKey(t)]["once"] = r[1]]
                /\ ret' = Ret("replace", t, "once", r[2], FALSE, FALSE)
                /\ NoteCur(t, "once", r[1])
                /\ NoteWritten(t, "once", r[1])
                /\ UNCHANGED <<track, iters, ext, polled, calls, at, todo, stored, st, key, initial, parent, stack, output, inits>>

\* ------------------------------------------------- lazy-storage accessors
\* FutureLazyLock::with: inited_local_key().borrow(), then f on the value;
\* and get, which is with(|x| *x).
LazyWith(t) ==
    /\ Declared("lazy")
    /\ LET cell == slot[LocalKey(t)]["lazy"]
           inited == InitedLocalKey(cell, Owner(t, "lazy"))
       IN  /\ slot' = [slot EXCEPT ![LocalKey(t)]["lazy"] = inited]
           /\ ret' = Ret("with", t, "lazy", inited, FALSE, inited # cell)
           /\ NoteCur(t, "lazy", inited)
           /\ written' = written
           /\ NoteInits(t, "lazy", inited # cell)
           /\ UNCHANGED <<track, iters, ext, polled, calls, at, todo, stored, st, key, initial, parent, stack, output>>

\* FutureLazyLock::replace: inited_local_key().borrow_mut().replace(value).
LazyReplace(t, v) ==
    /\ Declared("lazy")
    /\ IF Borrowed(t, "lazy")
       THEN BorrowMutFails(t, "replace", "lazy")
       ELSE LET cell == slot[LocalKey(t)]["lazy"]
                inited == InitedLocalKey(cell, Owner(t, "lazy"))
                r == ReplaceCell(inited, Some(v, Owner(t, "lazy")))
            IN  /\ slot' = [slot EXCEPT ![LocalKey(t)]["lazy"] = r[1]]
                /\ ret' = Ret("replace", t, "lazy", r[2], FALSE, inited # cell)
                /\ NoteCur(t, "lazy", r[1])
                /\ NoteWritten(t, "lazy", r[1])
                /\ NoteInits(t, "lazy", inited # cell)
                /\ UNCHANGED <<track, iters, ext, polled, calls, at, todo, stored, st, key, initial, parent, stack, output>>

\* The cell FutureLazyLock::set writes to: it goes through
\* inited_local_key() like the other accessors.
SetLocalKey(cell, tag) == InitedLocalKey(cell, tag)

\* FutureLazyLock::set.
LazySet(t, v) ==
    /\ Declared("lazy")
    /\ IF Borrowed(t, "lazy")
       THEN BorrowMutFails(t, "set", "lazy")
       ELSE LET cell == slot[LocalKey(t)]["lazy"]
                inited == SetLocalKey(cell, Owner(t, "lazy"))
                r == ReplaceCell(inited, Some(v, Owner(t, "lazy")))
            IN  /\ slot' = [slot EXCEPT ![LocalKey(t)]["lazy"] = r[1]]
                /\ ret' = Ret("set", t, "lazy", None, FALSE, inited # cell)
                /\ NoteCur(t, "lazy", r[1])
                /\ NoteWritten(t, "lazy", r[1])
                /\ NoteInits(t, "lazy", inited # cell)
                /\ UNCHANGED <<track, iters, ext, polled, calls, at, todo, stored, st, key, initial, parent, stack, output>>

\* --------------------------------------------------------------- threads
\* Thread t ends and another thread takes its place.  A thread's cell is
\* created by local_key() on the thread's first touch of the key, with
\* RefCell::new(None): the new thread starts with empty cells.
ThreadExit(t) ==
    /\ stack[t] = <<>>
    /\ calls[t] = <<>>
    /\ slot' = [slot EXCEPT ![t] = [k \in Keys |-> None]]
    /\ ret' = NoRet
    /\ UNCHANGED <<track, iters, ext, polled, calls, at, todo, stored, st, key, initial, parent, stack, output, cur, written, inits>>

\* ------------------------------------------------------- specification
\* The values written by code that runs outside every scope: such a value
\* is told from a scope's by its tag, so one value is enough.
Writable(t) == IF stack[t] = <<>> THEN {0} ELSE Val

Next ==
    \/ \E t \in Threads, s \in Scopes : PollBegin(t, s)
    \/ \E t \in Threads : PollSuspend(t)
    \/ \E t \in Threads : PollComplete(t)
    \/ \E t \in Threads : InnerPanic(t)
    \/ \E s \in Scopes : Discard(s)
    \/ \E t \in Threads : OnceWith(t)
    \/ \E t \in Threads : OnceLockGet(t)
    \/ \E t \in Threads : OnceTake(t)
    \/ \E t \in Threads : \E v \in Writable(t) : OnceReplace(t, v)
    \/ \E t \in Threads : LazyWith(t)
    \/ \E t \in Threads : \E v \in Writable(t) : LazyReplace(t, v)
    \/ \E t \in Threads : \E v \in Writable(t) : LazySet(t, v)
    \/ \E t \in Threads : ThreadExit(t)

Spec == Init /\ [][Next]_vars

SpecTrack == InitTrack /\ [][Next]_vars

\* ------------------------------------------------------ with callbacks
\* FutureOnceLock::with and FutureOnceCell::with up to the call of f, for a
\* callback f that itself calls into the library: the Ref taken by
\* borrow() stays alive while f runs.
OnceWithCall(t) ==
    /\ Declared("once")
    /\ Len(calls[t]) < MaxNest
    /\ LET cell == slot[LocalKey(t)]["once"]
           r == Expect(cell)
       IN  /\ ret' = Ret("with", t, "once", r.res, r.err, FALSE)
           /\ IF r.err
              THEN Panic(t)
              ELSE /\ calls' = [calls EXCEPT ![t] = Append(@, [k |-> "once", d |-> Len(stack[t])])]
                   /\ UNCHANGED <<st, stored, stack>>
           /\ UNCHANGED <<track, iters, ext, polled, at, todo, slot, key, initial, parent, output, cur, written, inits>>

\* FutureLazyLock::with up to the call of f: inited_local_key(), borrow().
LazyWithCall(t) ==
    /\ Declared("lazy")
    /\ Len(calls[t]) < MaxNest
    /\ LET cell == slot[LocalKey(t)]["lazy"]
           inited == InitedLocalKey(cell, Owner(t, "lazy"))
       IN  /\ slot' = [slot EXCEPT ![LocalKey(t)]["lazy"] = inited]
           /\ ret' = Ret("with", t, "lazy", inited, FALSE, inited # cell)
           /\ NoteCur(t, "lazy", inited)
           /\ written' = written
           /\ NoteInits(t, "lazy", inited # cell)
           /\ calls' = [calls EXCEPT ![t] = Append(@, [k |-> "lazy", d |-> Len(stack[t])])]
           /\ UNCHANGED <<track, iters, ext, polled, at, todo, stored, st, key, initial, parent, stack, output>>

\* The callback returns and with drops its Ref.
WithReturn(t) ==
    /\ InCallback(t)
    /\ calls' = [calls EXCEPT ![t] = SubSeq(@, 1, Len(@) - 1)]
    /\ ret' = NoRet
    /\ UNCHANGED <<track, iters, ext, polled, at, todo, slot, stored, st, key, initial, parent, stack, output, cur, written, inits>>

\* The program of Spec with callbacks that call into the library.
NextBorrow ==
    \/ Next
    \/ \E t \in Threads : OnceWithCall(t)
    \/ \E t \in Threads : LazyWithCall(t)
    \/ \E t \in Threads : WithReturn(t)

\* Two futures of one key, the first created with a value, the second a
\* task of its own or awaited inside the first.
InitBorrow ==
    /\ \E k \in Keys : key = [s \in Scopes |-> k]
    /\ parent \in [Scopes -> {0} \cup Scopes]
    /\ \A s \in Scopes : parent[s] < s
    /\ initial \in [Scopes -> Cells]
    /\ initial[1] = Some(ScopeValue(1), 1)
    /\ initial[2] \in {None, Some(ScopeValue(2), 2)}
    /\ track = FALSE
    /\ iters = [s \in Scopes |-> 0]
    /\ polled = [s \in Scopes |-> [n |-> -1, last |-> NoPoll]]
    /\ ext = [t \in Threads |-> None]
    /\ Created

SpecBorrow == InitBorrow /\ [][NextBorrow]_vars

\* ------------------------------------------------------------ raw swap
\* The values code on a thread puts into its local Option before a swap.
Locals == {None} \cup {Some(v, 0) : v \in Val}

\* let mut slot = c, in code outside every scope.
LocalAssign(t, c) ==
    /\ ext[t] # c
    /\ ext' = [ext EXCEPT ![t] = c]
    /\ ret' = NoRet
    /\ UNCHANGED <<track, iters, polled, calls, at, todo, slot, stored, st, key, initial, parent, stack, output, cur, written, inits>>

\* FutureLocalKey::swap(&KEY, &mut slot) on the once key, as the crate's
\* own code and tests call it.
KeySwapCall(t) ==
    /\ Declared("once")
    /\ IF Borrowed(t, "once")
       THEN /\ Panic(t)
            /\ ret' = Ret("swap", t, "once", None, TRUE, FALSE)
            /\ UNCHANGED <<slot, ext>>
       ELSE /\ LET sw == KeySwap(slot[LocalKey(t)]["once"], ext[t])
               IN  /\ slot' = [slot EXCEPT ![LocalKey(t)]["once"] = sw[1]]
                   /\ ext' = [ext EXCEPT ![t] = sw[2]]
            /\ ret' = Ret("swap", t, "once", None, FALSE, FALSE)
            /\ UNCHANGED <<st, stored, stack, calls>>
    /\ UNCHANGED <<track, iters, polled, at, todo, key, initial, parent, output, cur, written, inits>>

\* Code outside every scope that swaps locals with the cells of the once
\* key, also from inside with callbacks; the futures are never polled.
InitSwap ==
    /\ key = [s \in Scopes |-> "once"]
    /\ parent = [s \in Scopes |-> 0]
    /\ initial = [s \in Scopes |-> None]
    /\ track = FALSE
    /\ iters = [s \in Scopes |-> 0]
    /\ polled = [s \in Scopes |-> [n |-> -1, last |-> NoPoll]]
    /\ ext \in [Threads -> Locals]
    /\ Created

NextSwap ==
    \/ \E t \in Threads : \E c \in Locals : LocalAssign(t, c)
    \/ \E t \in Threads : KeySwapCall(t)
    \/ \E t \in Threads : OnceWithCall(t)
    \/ \E t \in Threads : WithReturn(t)

SpecSwap == InitSwap /\ [][NextSwap]_vars

\* ------------------------------------------------------------ two keys
\* Two futures bound to different keys: the first is created with a value
\* for the once key, the second is attached to the lazy key; the second
\* runs as a task of its own or is awaited inside the first.
InitKeys ==
    /\ key = [s \in Scopes |-> IF s = 1 THEN "once" ELSE "lazy"]
    /\ parent \in [Scopes -> {0} \cup Scopes]
    /\ \A s \in Scopes : parent[s] < s
    /\ initial = [s \in Scopes |-> IF s = 1 THEN Some(ScopeValue(1), 1) ELSE None]
    /\ track = FALSE
    /\ iters = [s \in Scopes |-> 0]
    /\ polled = [s \in Scopes |-> [n |-> -1, last |-> NoPoll]]
    /\ ext = [t \in Threads |-> None]
    /\ Created

SpecKeys == InitKeys /\ [][Next]_vars

\* ------------------------------------------------------ the counting loop
\* Two tasks of one key, each running the counting loop for a number of
\* iterations of its own: on the once-storage key each is created with a
\* value (with_scope), on the lazy key each is attached without one.
InitLoop ==
    /\ \E k \in Keys : key = [s \in Scopes |-> k]
    /\ parent = [s \in Scopes |-> 0]
    /\ initial \in [Scopes -> Cells]
    /\ \A s \in Scopes :
          IF key[s] = "once"
          THEN initial[s].some /\ initial[s].o = s
          ELSE initial[s] = None
    /\ track = TRUE
    /\ iters \in [Scopes -> 0..MaxIter]
    /\ polled = [s \in Scopes |-> [n |-> 0, last |-> NoPoll]]
    /\ ext = [t \in Threads |-> None]
    /\ Created

\* One poll of the loop's future that ends in the yield:
\* j = VALUE.with(Clone::clone); VALUE.replace(j + 1); yield_now().await,
\* and the wrapper's swap back on Poll::Pending.
OnceLoopIter(t) ==
    /\ stack[t] # <<>>
    /\ key[Top(t)] = "once"
    /\ todo[Top(t)] > 0
    /\ LET s == Top(t)
           cell == slot[LocalKey(t)]["once"]
           j == Expect(cell)
           r == ReplaceCell(cell, Some(j.res.v + 1, s))
           sw == SwapOut(r[1], stored[s])
       IN  IF j.err
           THEN /\ Panic(t)
                /\ ret' = Ret("with", t, "once", j.res, TRUE, FALSE)
                /\ UNCHANGED <<slot, cur, written, todo, polled>>
           ELSE /\ slot' = [slot EXCEPT ![LocalKey(t)]["once"] = sw[1]]
                /\ stored' = [stored EXCEPT ![s] = sw[2]]
                /\ st' = [st EXCEPT ![s] = "Suspended"]
                /\ stack' = [stack EXCEPT ![t] = SubSeq(@, 1, Len(@) - 1)]
                /\ cur' = [cur EXCEPT ![s] = r[1]]
                /\ written' = [written EXCEPT ![s] = r[1]]
                /\ todo' = [todo EXCEPT ![s] = @ - 1]
                /\ ret' = Ret("replace", t, "once", r[2], FALSE, FALSE)
                /\ calls' = calls
                /\ NoteResult(s, Pending)
    /\ UNCHANGED <<track, iters, ext, at, key, initial, parent, output, inits>>

\* The last poll of the loop's future: the loop is over, the future returns
\* VALUE.get().unwrap(), and the wrapper swaps back and completes.
OnceLoopFinish(t) ==
    /\ stack[t] # <<>>
    /\ key[Top(t)] = "once"
    /\ todo[Top(t)] = 0
    /\ LET s == Top(t)
           cell == slot[LocalKey(t)]["once"]
           got == Expect(cell)
           sw == SwapOut(cell, stored[s])
           done == Completion(s, sw[2])
       IN  IF got.err
           THEN /\ Panic(t)
                /\ UNCHANGED <<slot, output, polled>>
                /\ ret' = Ret("get", t, "once", got.res, TRUE, FALSE)
           ELSE /\ slot' = [slot EXCEPT ![LocalKey(t)]["once"] = sw[1]]
                /\ stored' = [stored EXCEPT ![s] = done.field]
                /\ st' = [st EXCEPT ![s] = "Completed"]
                /\ stack' = [stack EXCEPT ![t] = SubSeq(@, 1, Len(@) - 1)]
                /\ output' = [output EXCEPT ![s] = done.out]
                /\ ret' = Ret("get", t, "once", got.res, FALSE, FALSE)
                /\ calls' = calls
                /\ NoteResult(s, Ready(got.res))
    /\ UNCHANGED <<track, iters, ext, at, todo, key, initial, parent, cur, written, inits>>

\* One poll of the lazy loop's future that ends in the yield:
\* j = VALUE.with(|x| *x); VALUE.replace(j + 1); yield_now().await, and
\* the wrapper's swap back on Poll::Pending.
LazyLoopIter(t) ==
    /\ stack[t] # <<>>
    /\ key[Top(t)] = "lazy"
    /\ todo[Top(t)] > 0
    /\ LET s == Top(t)
           cell == slot[LocalKey(t)]["lazy"]
           j == InitedLocalKey(cell, s)
           r == ReplaceCell(InitedLocalKey(j, s), Some(j.v + 1, s))
           sw == SwapOut(r[1], stored[s])
       IN  /\ slot' = [slot EXCEPT ![LocalKey(t)]["lazy"] = sw[1]]
           /\ stored' = [stored EXCEPT ![s] = sw[2]]
           /\ st' = [st EXCEPT ![s] = "Suspended"]
           /\ cur' = [cur EXCEPT ![s] = r[1]]
           /\ written' = [written EXCEPT ![s] = r[1]]
           /\ NoteInits(t, "lazy", j # cell)
           /\ NoteResult(s, Pending)
           /\ ret' = Ret("replace", t, "lazy", r[2], FALSE, j # cell)
    /\ stack' = [stack EXCEPT ![t] = SubSeq(@, 1, Len(@) - 1)]
    /\ todo' = [todo EXCEPT ![Top(t)] = @ - 1]
    /\ UNCHANGED <<track, iters, ext, calls, at, key, initial, parent, output>>

\* The last poll of the lazy loop's future: it returns VALUE.get(), and the
\* wrapper swaps back and completes.
LazyLoopFinish(t) ==
    /\ stack[t] # <<>>
    /\ key[Top(t)] = "lazy"
    /\ todo[Top(t)] = 0
    /\ LET s == Top(t)
           cell == slot[LocalKey(t)]["lazy"]
           got == InitedLocalKey(cell, s)
           sw == SwapOut(got, stored[s])
           done == Completion(s, sw[2])
       IN  /\ slot' = [slot EXCEPT ![LocalKey(t)]["lazy"] = sw[1]]
           /\ stored' = [stored EXCEPT ![s] = done.field]
           /\ st' = [st EXCEPT ![s] = "Completed"]
           /\ output' = [output EXCEPT ![s] = done.out]
           /\ cur' = [cur EXCEPT ![s] = got]
           /\ NoteInits(t, "lazy", got # cell)
           /\ NoteResult(s, Ready(got))
           /\ ret' = Ret("get", t, "lazy", got, FALSE, got # cell)
    /\ stack' = [stack EXCEPT ![t] = SubSeq(@, 1, Len(@) - 1)]
    /\ UNCHANGED <<track, iters, ext, calls, at, todo, key, initial, parent, written>>

NextLoop ==
    \/ \E t \in Threads, s \in Scopes : PollBegin(t, s)
    \/ \E t \in Threads : OnceLoopIter(t)
    \/ \E t \in Threads : OnceLoopFinish(t)
    \/ \E t \in Threads : LazyLoopIter(t)
    \/ \E t \in Threads : LazyLoopFinish(t)

SpecLoop == InitLoop /\ [][NextLoop]_vars

\* The same with a scheduler that keeps polling what can be polled.
SpecLoopFair == SpecLoop /\ WF_vars(NextLoop)

TypeOK ==
    /\ slot \in [Threads -> [Keys -> Cells]]
    /\ stored \in [Scopes -> Cells]
    /\ cur \in [Scopes -> Cells]
    /\ output \in [Scopes -> Cells]

\* ================================================================ claims
Live == {"NotStarted", "Installed", "Suspended"}

\* The cells of the program that hold a value created in scope s.
SlotsOf(s) == {<<t, k>> \in Threads \X Keys : slot[t][k].some /\ slot[t][k].o = s}
FieldsOf(s) == {f \in Scopes : stored[f].some /\ stored[f].o = s}

\* The thread on whose stack scope s is (s is mid-resume).
ThreadOf(s) == CHOOSE t \in Threads : s \in OnStack(t)

\* The scope of s's key that is mid-resume directly inside s.
Above(s) ==
    LET t == ThreadOf(s)
        i == CHOOSE n \in DOMAIN stack[t] : stack[t][n] = s
        up == {n \in DOMAIN stack[t] : n > i /\ key[stack[t][n]] = key[s]}
    IN  stack[t][CHOOSE n \in up : \A m \in up : n <= m]

\* C1 (isolation): inside a resume window of a scope, on whatever thread,
\* the cell of its key holds that scope's own value (the one it was created
\* with or last wrote, or nothing), never a value created in another scope.
C1_Isolation ==
    \A t \in Threads, k \in Keys :
        Owner(t, k) # 0 =>
            /\ slot[t][k] = cur[Owner(t, k)]
            /\ slot[t][k].some => slot[t][k].o = Owner(t, k)

\* Both tasks are mid-resume at once, on different threads, each seeing the
\* value it wrote itself.
C1_Witness ==
    /\ parent[2] = 0
    /\ Owner(1, key[1]) = 1 /\ Owner(2, key[2]) = 2
    /\ slot[1][key[1]] = Some(1, 1)
    /\ slot[2][key[2]] = Some(0, 2)

InField(s) == stored[s].some /\ stored[s].o = s
InSlot(s) == \E t \in Threads : s \in OnStack(t) /\ <<t, key[s]>> \in SlotsOf(s)

\* C2 as stated: from creation to completion, the value of a scope created
\* with one is either in the wrapper's own field or in the cell of the
\* thread resuming it, never in both and never in neither.
C2_Original ==
    \A s \in Scopes :
        initial[s].some /\ st[s] \in Live => (InField(s) # InSlot(s))

\* Where the value of scope s is: the wrapper's field while s is not
\* mid-resume, the resuming thread's cell while s is the innermost
\* mid-resume scope of its key, the field of the same-key scope polled
\* inside it otherwise.
Home(s) ==
    IF st[s] # "Installed" THEN stored[s]
    ELSE IF Owner(ThreadOf(s), key[s]) = s THEN slot[ThreadOf(s)][key[s]]
    ELSE stored[Above(s)]

\* C2 as amended: from creation to completion, a value the scope holds is
\* in exactly one place, its home (the wrapper's field, the resuming
\* thread's cell, or the field of the same-key scope polled inside it), and
\* in no other cell or field; a scope that holds none (nothing installed
\* yet, or removed by take) has it nowhere.
C2_OneHome ==
    \A s \in Scopes :
        st[s] \in Live =>
            /\ Home(s) = cur[s]
            /\ Cardinality(SlotsOf(s)) + Cardinality(FieldsOf(s))
                  = IF cur[s].some THEN 1 ELSE 0

\* The value of scope 1 sits in the field of scope 2, polled inside it.
C2_Witness ==
    /\ st[1] = "Installed" /\ st[2] = "Installed"
    /\ key[1] = key[2] /\ parent[2] = 1
    /\ cur[1].some /\ stored[2] = cur[1]
    /\ slot[ThreadOf(2)][key[2]] = cur[2] /\ cur[2].some

\* C3 as stated: the cell of a key is empty on a thread whenever no scope
\* of that key is mid-resume there.
C3_Original ==
    \A t \in Threads, k \in Keys : Owner(t, k) = 0 => ~slot[t][k].some

\* C3 as amended: before its first resume, after a resume step returned at
\* a suspension point and after it completed, no value of the scope is in
\* any thread's cell (the cell may hold what was put there outside scopes).
C3_NotObservableOutside ==
    \A s \in Scopes :
        st[s] \in {"NotStarted", "Suspended", "Completed"} => SlotsOf(s) = {}

\* A scope completed after writing its value, and a cell of its key holds a
\* value written outside every scope.
C3_Witness ==
    /\ st[1] = "Completed" /\ cur[1].some /\ cur[1] # initial[1]
    /\ \E t \in Threads : slot[t][key[1]].some /\ slot[t][key[1]].o = 0

\* C4 as stated: a completed scope that was created with a value yields,
\* as the stored component of its output, that value if the inner
\* computation never wrote, and else the value last written inside it.
C4_Original ==
    \A s \in Scopes :
        st[s] = "Completed" /\ initial[s].some => output[s] = written[s]

\* C4 as amended: the same, for a scope that still holds a value when it
\* completes (no take after its last write).
C4_RoundTrip ==
    \A s \in Scopes :
        st[s] = "Completed" /\ initial[s].some /\ cur[s].some
            => output[s] = written[s]

\* Scope 1 completed and yields the value it wrote, other than the one it
\* was created with, while scope 2 has been polled too.
C4_Witness ==
    /\ st[1] = "Completed" /\ initial[1].some
    /\ written[1] # initial[1] /\ output[1] = written[1]
    /\ at[2] # {}

\* C5 (migration): a scope takes its value along from thread to thread.
\* While it is suspended (or not started) the value it held at the end of
\* its last resume window is in its wrapper and in no thread's cell, and
\* every resume step, on whatever thread, installs exactly that value in the
\* cell of the resuming thread.
C5_Migration ==
    /\ [](\A s \in Scopes :
            st[s] \in {"NotStarted", "Suspended"} =>
                stored[s] = cur[s] /\ SlotsOf(s) = {})
    /\ [][\A s \in Scopes, t \in Threads :
            (st[s] \in {"NotStarted", "Suspended"} /\ st'[s] = "Installed"
                /\ stack'[t] # <<>> /\ stack'[t][Len(stack'[t])] = s)
            => slot'[t][key[s]] = cur[s]]_vars

\* A scope that has been polled on both threads is mid-resume on thread 2
\* and finds there the value it wrote in an earlier resume window.
C5_Witness ==
    \E s \in Scopes :
        /\ st[s] = "Installed" /\ at[s] = Threads
        /\ Owner(2, key[s]) = s
        /\ written[s] # initial[s] /\ cur[s] = written[s]
        /\ slot[2][key[s]] = cur[s]
        /\ slot[1][key[s]] = None
        /\ ret = NoRet

\* C6 (persistence across suspension, once-storage): a scope created with
\* value v that runs n iterations of (read the value, write value + 1,
\* suspend) completes with stored value v + n, which is also what its last
\* read returns, whatever the other scope does in between; with n = 0 that
\* is the value it was created with.
C6_Persistence ==
    /\ \A s \in Scopes :
          (key[s] = "once" /\ st[s] = "Completed") =>
              /\ output[s] = Some(initial[s].v + iters[s], s)
              /\ cur[s] = output[s]
    /\ (ret.op = "get" /\ ret.k = "once") =>
          /\ ~ret.err
          /\ ret.res.v = initial[ret.res.o].v + iters[ret.res.o]
    /\ \A s \in Scopes :
          (key[s] = "once" /\ st[s] \in Live) =>
              Home(s) = Some(initial[s].v + iters[s] - todo[s], s)

\* Scope 1 has run MaxIter iterations on both threads and scope 2 none, and
\* both have completed: scope 1 with its value plus MaxIter, scope 2 with
\* the value it was created with.
C6_Witness ==
    /\ key[1] = "once"
    /\ st[1] = "Completed" /\ st[2] = "Completed"
    /\ iters[1] = MaxIter /\ iters[2] = 0
    /\ at[1] = Threads
    /\ output[1] = Some(initial[1].v + MaxIter, 1)
    /\ output[2] = initial[2]
    /\ initial[2].v # output[1].v

\* C7 (lazy idempotence): within one scope of a lazy-storage key the
\* initializer runs at most once, whatever accessors are called, however
\* often the scope is suspended and resumed, and on whichever threads.
C7_InitAtMostOnce ==
    \A s \in Scopes : key[s] = "lazy" => inits[s] <= 1

\* A scope attached to the lazy key has run the initializer once, and an
\* accessor called in it on thread 2 found the value without initializing
\* again, after the other scope of the key ran its own initialization and
\* completed.
C7_Witness ==
    \E s \in Scopes :
        /\ key[s] = "lazy" /\ initial[s] = None /\ inits[s] = 1
        /\ st[s] = "Installed" /\ Owner(2, "lazy") = s
        /\ ret.op \in {"with", "replace", "set"} /\ ret.k = "lazy" /\ ret.t = 2
        /\ ~ret.ran
        /\ \E o \in Scopes : o # s /\ st[o] = "Completed" /\ inits[o] = 1

\* C8 (default per task): a fresh scope attached to a lazy-storage key
\* holds nothing before its first access; its first access runs the
\* initializer and observes the initializer's value, and whatever it
\* observes later is a value of its own, never one that another scope of
\* the key or code outside every scope left in the thread's cell.
C8_DefaultPerTask ==
    \A s \in Scopes :
        key[s] = "lazy" /\ initial[s] = None =>
            /\ inits[s] = 0 => cur[s] = None
            /\ cur[s].some => inits[s] = 1 /\ cur[s].o = s
            /\ (ret.op # "none" /\ ret.k = "lazy" /\ Owner(ret.t, "lazy") = s) =>
                  /\ inits[s] = 1
                  /\ ret.op \in {"with", "replace"} =>
                        IF ret.ran
                        THEN ret.res = Some(InitValue, s)
                        ELSE ret.res.some /\ ret.res.o = s

\* Scope 2, attached fresh, makes its first access on the one thread on
\* which scope 1 has run and left, and observes the initializer's value and
\* not the value scope 1 holds.
C8_Witness ==
    /\ key[2] = "lazy" /\ initial[2] = None
    /\ st[1] \in {"Suspended", "Completed"} /\ cur[1].some
    /\ cur[1].v # InitValue
    /\ \E t \in Threads : at[1] = {t} /\ at[2] = {t} /\ ret.t = t
    /\ ret.op = "with" /\ ret.k = "lazy" /\ ret.ran
    /\ ret.res = Some(InitValue, 2)
    /\ inits[2] = 1

\* C9 as stated: set on lazy-storage never runs the initializer.
C9_SetBypassesInit ==
    (ret.op = "set" /\ ret.k = "lazy") => ~ret.ran

ReplaceTakeEffect ==
    /\ ~ret'.err
    /\ ret'.res = slot[ret'.t]["once"]
    /\ ret'.op = "replace" =>
          /\ slot'[ret'.t]["once"].some
          /\ slot'[ret'.t]["once"].o = Owner(ret'.t, "once")
    /\ ret'.op = "take" => slot'[ret'.t]["once"] = None

\* C11 as stated: on once-storage replace(v) and take() never fail; each
\* returns the previous content of the slot, replace leaves v in it and
\* take leaves it empty.
C11_Original ==
    [][(ret'.k = "once" /\ ret'.op \in {"replace", "take"}) => ReplaceTakeEffect]_vars

\* C11 as amended: the same for calls made while no with callback on the
\* key is running on the thread; a call made from inside such a callback
\* panics on the borrowed cell and leaves every cell as it was.
C11_ReplaceTake ==
    [][(ret'.k = "once" /\ ret'.op \in {"replace", "take"}) =>
          IF Borrowed(ret'.t, "once")
          THEN ret'.err /\ slot' = slot
          ELSE ReplaceTakeEffect]_vars

\* take() inside a scope's poll window has returned the scope's value and
\* left the cell empty.
C11_Witness ==
    /\ ret.op = "take" /\ ret.k = "once" /\ ~ret.err
    /\ ret.res.some /\ ret.res.o # 0
    /\ Owner(ret.t, "once") = ret.res.o
    /\ slot[ret.t]["once"] = None

\* C12: lazy-storage accessors never report a missing value.  with, get
\* and replace called on a thread whose cell is empty, inside a scope or
\* outside every scope, run the initializer first and then operate on its
\* result (with and get return it, replace returns it as the previous
\* value); on a populated cell with and get return what the cell holds,
\* which after a replace is the value written.
C12_LazyNeverMissing ==
    [][(ret'.k = "lazy" /\ ret'.op \in {"with", "replace"}
            /\ ~Borrowed(ret'.t, "lazy")) =>
          LET t == ret'.t
              before == slot[t]["lazy"]
              after == slot'[t]["lazy"]
          IN  /\ ~ret'.err
              /\ ret'.ran <=> ~before.some
              /\ ret'.res = IF before.some THEN before
                            ELSE Some(InitValue, Owner(t, "lazy"))
              /\ ret'.op = "with" => after = ret'.res
              /\ ret'.op = "replace" =>
                    after \in {Some(v, Owner(t, "lazy")) : v \in Writable(t)}]_vars

\* replace called outside every scope on a thread whose cell was empty has
\* returned the initializer's value and left the written value in the cell.
C12_Witness ==
    /\ ret.op = "replace" /\ ret.k = "lazy" /\ ~ret.err /\ ret.ran
    /\ stack[ret.t] = <<>>
    /\ ret.res = Some(InitValue, 0)
    /\ slot[ret.t]["lazy"] = Some(0, 0)

\* C13 (persistence across suspension, lazy-storage): a scope attached to
\* the lazy key that runs n iterations of (read, write value + 1, suspend)
\* runs the initializer once, on its first read, carries the value across
\* every suspension, and ends with the initializer's value plus n, which is
\* what its final get returns.
C13_LazyPersistence ==
    /\ \A s \in Scopes :
          (key[s] = "lazy" /\ st[s] = "Completed") =>
              /\ cur[s] = Some(InitValue + iters[s], s)
              /\ stored[s] = cur[s]
              /\ inits[s] = 1
    /\ (ret.op = "get" /\ ret.k = "lazy") =>
          ret.res = Some(InitValue + iters[ret.res.o], ret.res.o)
    /\ \A s \in Scopes :
          (key[s] = "lazy" /\ st[s] \in Live) =>
              /\ inits[s] <= 1
              /\ Home(s) = IF inits[s] = 0 THEN None
                           ELSE Some(InitValue + iters[s] - todo[s], s)

\* Scope 1 has run MaxIter iterations on both threads and has completed
\* with the initializer's value plus MaxIter after a single initialization,
\* while scope 2 of the same key is suspended in the middle of its own loop.
C13_Witness ==
    /\ key[1] = "lazy"
    /\ st[1] = "Completed" /\ iters[1] = MaxIter /\ at[1] = Threads
    /\ cur[1] = Some(InitValue + MaxIter, 1) /\ inits[1] = 1
    /\ st[2] = "Suspended" /\ iters[2] = MaxIter /\ todo[2] = 1
    /\ cur[2] = Some(InitValue + MaxIter - 1, 2)

\* C14: polling a scoped future from inside a with callback on the same key
\* and thread panics at the first swap of poll and installs nothing.  No
\* scope of a key is mid-resume above a running callback on that key; a
\* poll attempted under such a callback ends with the polled wrapper gone
\* and every cell as it was; and a poll that installs its value found the
\* cell not borrowed.
C14_PollInsideWith ==
    /\ [](\A t \in Threads : \A i \in DOMAIN calls[t] :
            /\ slot[t][calls[t][i].k].some
            /\ \A j \in DOMAIN stack[t] :
                  j > calls[t][i].d => key[stack[t][j]] # calls[t][i].k)
    /\ [][/\ ret'.op = "poll" =>
                /\ ret'.err
                /\ \E i \in DOMAIN calls[ret'.t] : calls[ret'.t][i].k = ret'.k
                /\ slot' = slot
                /\ calls'[ret'.t] = <<>>
                /\ \E s \in Scopes :
                      /\ key[s] = ret'.k
                      /\ st[s] \in {"NotStarted", "Suspended"}
                      /\ st'[s] = "Dropped" /\ stored'[s] = None
           /\ \A s \in Scopes, t \in Threads :
                (st[s] \in {"NotStarted", "Suspended"} /\ st'[s] = "Installed"
                    /\ stack'[t] = Append(stack[t], s))
                => \A i \in DOMAIN calls[t] : calls[t][i].k # key[s]]_vars

\* A poll of scope 2, created with a value, was attempted from inside a
\* with callback on its key: the poll panicked, the wrapper is gone, and
\* the cell still holds the value the callback was given, not scope 2's.
C14_Witness ==
    /\ ret.op = "poll" /\ ret.err
    /\ st[2] = "Dropped" /\ initial[2].some
    /\ slot[ret.t][ret.k].some
    /\ slot[ret.t][ret.k].o # 2
    /\ SlotsOf(2) = {}

\* C15: nested scopes of one key balance their swaps in LIFO order.  While
\* B is resumed inside A's resume step the cell holds B's value and A's is
\* parked in B's wrapper; in A's code before and after B's step the cell
\* holds A's value and B's is in B's wrapper; once A's step has returned
\* both values are in their own wrappers; and no accessor call made inside
\* a scope's window returns a value of another scope.
C15_NestedLIFO ==
    /\ \A b \in Scopes :
          (parent[b] # 0 /\ key[b] = key[parent[b]]) =>
              LET a == parent[b]
                  k == key[b]
              IN  /\ st[b] = "Installed" =>
                        /\ st[a] = "Installed"
                        /\ \E t \in Threads :
                              /\ Len(stack[t]) >= 2
                              /\ stack[t][Len(stack[t])] = b
                              /\ stack[t][Len(stack[t]) - 1] = a
                              /\ slot[t][k] = cur[b]
                        /\ stored[b] = cur[a]
                  /\ (st[a] = "Installed" /\ st[b] # "Installed") =>
                        /\ slot[ThreadOf(a)][k] = cur[a]
                        /\ st[b] \in {"NotStarted", "Suspended"} => stored[b] = cur[b]
                  /\ st[a] = "Suspended" =>
                        /\ stored[a] = cur[a]
                        /\ st[b] \in {"NotStarted", "Suspended"} => stored[b] = cur[b]
    /\ (ret.op \in {"with", "get", "take", "replace"} /\ ~ret.err /\ ret.res.some
            /\ Owner(ret.t, ret.k) # 0)
          => ret.res.o = Owner(ret.t, ret.k)

\* Scope 2 is resumed inside scope 1's resume step on the same key: a with
\* call in scope 2's window has returned scope 2's value, while scope 1's
\* value is parked in scope 2's wrapper.
C15_Witness ==
    /\ parent[2] = 1 /\ key[1] = key[2]
    /\ \E t \in Threads : stack[t] = <<1, 2>> /\ ret.t = t
    /\ cur[1].some /\ cur[1].o = 1 /\ cur[2].some /\ cur[2].o = 2
    /\ ret.op = "with" /\ ~ret.err /\ ret.res = cur[2]
    /\ stored[2] = cur[1]

\* The value the counting loop of scope s starts from.
LoopBase(s) == IF key[s] = "once" THEN initial[s].v ELSE InitValue

\* C16: the wrapper has the suspend/resume contract of its inner future.
\* An inner future that suspends n times and then completes (n + 1 resumes)
\* makes the wrapper return Pending from each of its first n polls and
\* Ready, with the inner output unchanged, from poll n + 1 (and, for a
\* wrapper created with a value, the stored value as the other component of
\* the output); one poll of the wrapper is one resume of the inner future;
\* and a wrapper that keeps being polled completes.
C16_SameContract ==
    /\ [](\A s \in Scopes :
            /\ st[s] = "NotStarted" => polled[s] = [n |-> 0, last |-> NoPoll]
            /\ st[s] = "Installed" => polled[s].n = iters[s] - todo[s] + 1
            /\ st[s] = "Suspended" =>
                  /\ polled[s].n = iters[s] - todo[s]
                  /\ polled[s].n <= iters[s]
                  /\ polled[s].last = Pending
            /\ st[s] = "Completed" =>
                  /\ polled[s].n = iters[s] + 1
                  /\ polled[s].last = Ready(Some(LoopBase(s) + iters[s], s))
                  /\ initial[s].some => output[s] = Some(LoopBase(s) + iters[s], s)
            /\ st[s] \notin {"Dropped", "Cancelled"})
    /\ <>(\A s \in Scopes : st[s] = "Completed")

\* Scope 1 suspended MaxIter times and has completed at poll MaxIter + 1
\* with the inner output; scope 2, with nothing to iterate, completed at
\* its first poll.
C16_Witness ==
    /\ st[1] = "Completed" /\ iters[1] = MaxIter
    /\ polled[1].n = MaxIter + 1 /\ polled[1].last.kind = "Ready"
    /\ polled[1].last.out = Some(LoopBase(1) + MaxIter, 1)
    /\ st[2] = "Completed" /\ iters[2] = 0 /\ polled[2].n = 1

\* C17 (cancellation): discarding a wrapper that is not started or is
\* suspended changes no thread's cell, and the scope's value goes with the
\* wrapper: from then on it is in no cell and in no wrapper, and no
\* accessor call on any thread returns it.
C17_Cancellation ==
    /\ [](\A s \in Scopes :
            st[s] = "Cancelled" =>
                /\ stored[s] = None
                /\ SlotsOf(s) = {} /\ FieldsOf(s) = {}
                /\ ret.res.some => ret.res.o # s)
    /\ [][\A s \in Scopes :
            (st[s] \in {"NotStarted", "Suspended"} /\ st'[s] = "Cancelled")
                => slot' = slot]_vars

\* Scope 1 wrote a value, was suspended and then discarded; afterwards
\* scope 2 of the same key, resumed on a thread, reads its own value.
C17_Witness ==
    /\ st[1] = "Cancelled" /\ cur[1].some /\ cur[1] # initial[1]
    /\ st[2] = "Installed" /\ parent[2] = 0
    /\ ret.op = "with" /\ ~ret.err /\ ret.res.some /\ ret.res.o = 2
    /\ Owner(ret.t, key[2]) = 2

C19_PerThread ==
    [][/\ Cardinality({u \in Threads : slot'[u] # slot[u]}) <= 1
       /\ ret'.op # "none" =>
             \A u \in Threads \ {ret'.t} : slot'[u] = slot[u]
       /\ \A t \in Threads :
             stack'[t] # stack[t] =>
                 \A u \in Threads \ {t} : slot'[u] = slot[u]]_vars

\* Thread 1 has written outside every scope and its cell holds the value,
\* while thread 2 has just read its own cell of the key and found it empty.
C19_Witness ==
    /\ slot[1]["once"] = Some(0, 0)
    /\ stack[1] = <<>> /\ stack[2] = <<>>
    /\ ret.op = "get" /\ ret.t = 2 /\ ret.k = "once" /\ ret.res = None
    /\ slot[2]["once"] = None

\* What a step that is a swap call does when it succeeds: the cell gets
\* what the caller's local held and the local gets what the cell held.
SwapEffect ==
    /\ ~ret'.err
    /\ slot'[ret'.t]["once"] = ext[ret'.t]
    /\ ext'[ret'.t] = slot[ret'.t]["once"]

\* Two swaps in a row of a cell and a local bring both back.
SwapTwice(cell, other) ==
    LET once == KeySwap(cell, other)
    IN  KeySwap(once[1], once[2]) = <<cell, other>>

\* C20 as stated: swap exchanges the thread's cell and the caller's local
\* whatever either holds, never fails and leaves no copy; two swaps in a
\* row restore both.
C20_Original ==
    /\ [](\A t \in Threads : SwapTwice(slot[t]["once"], ext[t]))
    /\ [][ret'.op = "swap" => SwapEffect]_vars

\* C20 as amended: the same for a swap called while no with callback on
\* the key is running on the thread; a swap called from inside such a
\* callback panics on the borrowed cell and changes neither side.
C20_Swap ==
    /\ [](\A t \in Threads : SwapTwice(slot[t]["once"], ext[t]))
    /\ [][ret'.op = "swap" =>
            IF Borrowed(ret'.t, "once")
            THEN ret'.err /\ slot' = slot /\ ext' = ext
            ELSE SwapEffect]_vars

\* A swap has just exchanged a populated cell and a populated local that
\* held different values.
C20_Witness ==
    /\ ret.op = "swap" /\ ~ret.err
    /\ slot[ret.t]["once"] = Some(0, 0)
    /\ ext[ret.t] = Some(1, 0)

\* The scopes whose resume step on thread t is left by the step.
Left(t) == OnStack(t) \ {stack'[t][i] : i \in DOMAIN stack'[t]}

\* The outermost of the resume steps on t that the step leaves.
Outermost(t) == stack[t][Len(stack'[t]) + 1]

\* C21 as stated: whenever control leaves a resume step, by a return of
\* the inner poll or by a panic in the code it runs, the thread's cell
\* holds again what it held before the step (the content the wrapper kept
\* in its field meanwhile) and what the cell held at that moment, the
\* scope's value, is back in the wrapper (in its field or, for a completed
\* scope created with a value, in its output).
C21_SwapBackUnconditional ==
    [][\A t \in Threads :
          Left(t) # {} =>
              /\ slot'[t][key[Outermost(t)]] = stored[Outermost(t)]
              /\ \/ stored'[Top(t)] = slot[t][key[Top(t)]]
                 \/ /\ st'[Top(t)] = "Completed"
                    /\ output'[Top(t)] = slot[t][key[Top(t)]]]_vars

\* A value put into a cell by code outside every scope.
Outside(cell) == cell.some /\ cell.o = 0

\* C22 (PreExisting): a value that is in a thread's cell when a scope's
\* resume step starts there is taken out of the cell by the swap-in and
\* kept unchanged for the length of the step, no code inside a resume step
\* finds a value from outside in its cell, the return of the step puts it
\* back in the cell of the same thread, and a wrapper that is not inside a
\* step (and so may go to another thread) never holds a value from outside.
C22_PreExisting ==
    /\ [](\A t \in Threads :
             stack[t] # <<>> => ~Outside(slot[t][key[Top(t)]]))
    /\ [](\A s \in Scopes : st[s] # "Installed" => ~Outside(stored[s]))
    /\ [][\A t \in Threads : \A s \in Scopes :
             /\ (st[s] # "Installed" /\ st'[s] = "Installed" /\ s \in {stack'[t][i] : i \in DOMAIN stack'[t]}) =>
                    stored'[s] = slot[t][key[s]]
             /\ (st[s] = "Installed" /\ st'[s] = "Installed") =>
                    stored'[s] = stored[s]
             /\ (s \in OnStack(t) /\ st'[s] \in {"Suspended", "Completed"}) =>
                    slot'[t][key[s]] = stored[s]]_vars

\* A scope is inside a resume step on a thread whose cell held a value
\* from outside when the step started: the cell shows the scope's value,
\* the value from outside waits in the wrapper's field.
C22_Witness ==
    /\ stack[1] = <<2>> /\ st[2] = "Installed"
    /\ slot[1]["once"] = Some(ScopeValue(2), 2)
    /\ stored[2] = Some(0, 0)

\* The keys of the scopes whose resume step on t begins or ends in the step.
Moved(t) ==
    LET now == OnStack(t)
        next == {stack'[t][i] : i \in DOMAIN stack'[t]}
    IN  {key[s] : s \in (now \ next) \cup (next \ now)}

\* C23 (KeyIndependence): with scopes of two different keys, nested or
\* interleaved, a step that begins or ends resume steps on a thread leaves
\* the cells of every other key, on every thread, as they were, an accessor
\* call on a key leaves the cells of every other key as they were, and at
\* every moment the cell of each key inside a scope of that key holds that
\* scope's own current value and no other scope's.
C23_KeyIndependence ==
    /\ [](\A t \in Threads : \A k \in Keys : \A s \in Scopes :
             (s = Owner(t, k)) =>
                 /\ slot[t][k] = cur[s]
                 /\ \A x \in Scopes \ {s} : ~(slot[t][k].some /\ slot[t][k].o = x))
    /\ [][/\ \A t \in Threads :
                stack'[t] # stack[t] =>
                    \A u \in Threads : \A k \in Keys \ Moved(t) :
                        slot'[u][k] = slot[u][k]
          /\ ret'.op # "none" =>
                \A u \in Threads : \A k \in Keys \ {ret'.k} :
                    slot'[u][k] = slot[u][k]]_vars

\* The lazy scope is mid-resume inside the once scope on thread 1 with a
\* value of its own while the once key's cell there still holds the once
\* scope's value, and the cells of thread 2 hold values from outside.
C23_Witness ==
    /\ stack[1] = <<1, 2>>
    /\ slot[1]["once"] = Some(ScopeValue(1), 1)
    /\ slot[1]["lazy"] = Some(0, 2)
    /\ slot[2]["once"] = Some(0, 0)
    /\ slot[2]["lazy"] = Some(InitValue, 0)
====
